---- MODULE Spec2Model ----
(***************************************************************************)
(* Two programs of the repository are modelled here.                       *)
(*                                                                         *)
(*  - crates/gs_files/src/io/wad.rs: WadAssetReader, the catalog built by  *)
(*    scanning a directory for .wad archives and the AssetReader           *)
(*    operations over it (specification SpecWad).                          *)
(*  - src/main.rs: the viewer, its archive loading loop, the cursor grab   *)
(*    and the MOUSE_GRABBED flag handled by process_window (specification  *)
(*    SpecViewer).                                                         *)
(*                                                                         *)
(* Strings are sequences of one-character strings so that the character    *)
(* level functions (lowercasing, splitting at the last dot) are computed.  *)
(***************************************************************************)
EXTENDS Integers, Sequences, FiniteSets, TLC

VARIABLES
    \* ---- WadAssetReader (wad.rs) ----
    dirOk,          \* fs::read_dir(root_path) succeeds
    dir,            \* what the directory iterator yields, in iteration order
    idx,            \* position of the for loop of WadAssetReader::new
    entries,        \* the HashMap<CStr16, Entry>, as a set of <<key, Entry>>
    opened,         \* indices of the directory entries File::open was called on
    wpc,            \* "new" | "scan" | "ready" | "off"
    result,         \* what the last AssetReader call returned
    \* ---- viewer (main.rs) ----
    vpc,            \* "start" | "load" | "loop" | "exit" | "panicked" | "off"
    wad_path,       \* Opt::wad_path, the files named by --wad
    wi,             \* position of the iterator over wad_path
    loaded,         \* indices of wad_path whose archive was applied to the map
    textures,       \* the map's textures: name -> resolution state
    MOUSE_GRABBED,  \* static mut MOUSE_GRABBED
    cursorGrab,     \* the window's cursor grab
    cursorVisible,  \* the window's cursor visibility
    cursorPos,      \* "center" | "moved"
    camera,         \* [moves, rots, aspect]: moves and rotations made, aspect ratio
    callbacks       \* process_window invocations inside the G branch

vars == <<dirOk, dir, idx, entries, opened, wpc, result,
          vpc, wad_path, wi, loaded, textures, MOUSE_GRABBED,
          cursorGrab, cursorVisible, cursorPos, camera, callbacks>>

wadVars == <<dirOk, dir, idx, entries, opened, wpc, result>>
viewerVars == <<vpc, wad_path, wi, loaded, textures, MOUSE_GRABBED,
                cursorGrab, cursorVisible, cursorPos, camera, callbacks>>

(***************************************************************************)
(* Bounds                                                                  *)
(***************************************************************************)
MaxDir == 2     \* directory entries the iterator yields
MaxWads == 2    \* --wad arguments of the viewer
MaxCam == 2     \* camera moves / rotations followed

(***************************************************************************)
(* Option<T>                                                               *)
(***************************************************************************)
None == [some |-> FALSE, v |-> <<>>]
Some(x) == [some |-> TRUE, v |-> x]

(***************************************************************************)
(* Characters and strings                                                  *)
(***************************************************************************)
\* u8::to_ascii_lowercase / char::to_lowercase on the letters used here
to_ascii_lowercase(c) ==
    CASE c = "A" -> "a"
      [] c = "B" -> "b"
      [] c = "C" -> "c"
      [] c = "D" -> "d"
      [] c = "W" -> "w"
      [] OTHER -> c

\* str::to_lowercase
to_lowercase(s) == [i \in 1..Len(s) |-> to_ascii_lowercase(s[i])]

\* a plausible slip: comparing the extension as it is spelled
eq_case_sensitive(a, b) == a = b

\* OsStr::eq_ignore_ascii_case
eq_ignore_ascii_case(a, b) ==
    /\ Len(a) = Len(b)
    /\ \A i \in 1..Len(a) : to_ascii_lowercase(a[i]) = to_ascii_lowercase(b[i])

WAD == <<"w", "a", "d">>

(***************************************************************************)
(* std::path::Path on single-component paths                               *)
(***************************************************************************)
\* Path::file_name: None for "", "." and ".."
file_name(p) ==
    IF p = <<>> \/ p = <<".">> \/ p = <<".", ".">> THEN None ELSE Some(p)

LastDot(s) ==
    IF \E i \in 1..Len(s) : s[i] = "."
    THEN CHOOSE i \in 1..Len(s) :
            /\ s[i] = "."
            /\ \A j \in (i+1)..Len(s) : s[j] # "."
    ELSE 0

\* std's rsplit_file_at_dot: (before, after) around the last dot; a name
\* that only starts with a dot has no "after"
rsplit_file_at_dot(file) ==
    IF file = <<".", ".">> THEN [before |-> Some(file), after |-> None]
    ELSE LET d == LastDot(file) IN
         IF d = 0 THEN [before |-> None, after |-> Some(file)]
         ELSE IF d = 1 THEN [before |-> Some(file), after |-> None]
         ELSE [before |-> Some(SubSeq(file, 1, d - 1)),
               after  |-> Some(SubSeq(file, d + 1, Len(file)))]

\* Path::extension: before.and(after)
extension(p) ==
    LET f == file_name(p) IN
    IF ~f.some THEN None
    ELSE LET s == rsplit_file_at_dot(f.v) IN
         IF s.before.some THEN s.after ELSE None

\* Path::file_stem: before.or(after)
file_stem(p) ==
    LET f == file_name(p) IN
    IF ~f.some THEN None
    ELSE LET s == rsplit_file_at_dot(f.v) IN
         IF s.before.some THEN s.before ELSE s.after

(***************************************************************************)
(* The files on disk                                                       *)
(***************************************************************************)
\* What a file holds: three valid archives, a file that is no archive and
\* a file that cannot be opened.
Contents == {"A1", "A2", "A3", "corrupt", "noperm"}

\* The lump names of a valid archive, in the order of its directory table.
Lumps(c) ==
    CASE c = "A1" -> << <<"a", "b">>, <<"c">> >>
      [] c = "A2" -> << <<"A", "B">>, <<"d">> >>
      [] c = "A3" -> << <<"A", "b">>, <<"a", "b">> >>
      [] OTHER -> << >>

\* File::open(&path)
File_open(c) == c # "noperm"

\* goldsrc_rs::wad::Entry: which lump of which file its reader reads
Entry(f, l) == [file |-> f, lump |-> l]
NoEntry == Entry(0, 0)

\* HashMap::insert on a set of <<key, value>> pairs
HashMap_insert(m, k, v) == {p \in m : p[1] # k} \cup {<<k, v>>}

RECURSIVE InsertLumps(_, _, _, _, _)
InsertLumps(m, f, lumps, n, remap_name_to_lower) ==
    IF n > Len(lumps) THEN m
    ELSE InsertLumps(
            HashMap_insert(m,
                IF remap_name_to_lower THEN to_lowercase(lumps[n]) ELSE lumps[n],
                Entry(f, n)),
            f, lumps, n + 1, remap_name_to_lower)

\* goldsrc_rs::wad_entries(reader, remap_name_to_lower) over file f
wad_entries(f, c, remap_name_to_lower) ==
    IF c = "corrupt" THEN [ok |-> FALSE, map |-> {}]
    ELSE [ok |-> TRUE, map |-> InsertLumps({}, f, Lumps(c), 1, remap_name_to_lower)]

\* a plausible slip: keeping the entry already in the map
HashMap_extend_first(m, x) ==
    m \cup {p \in x : \A q \in m : q[1] # p[1]}

\* HashMap::extend(x.into_iter()): insert every pair, replacing equal keys
HashMap_extend(m, x) ==
    {p \in m : \A q \in x : q[1] # p[1]} \cup x

Keys(m) == {p[1] : p \in m}

(***************************************************************************)
(* The directory                                                           *)
(***************************************************************************)
FileNames == {
    <<"a", ".", "w", "a", "d">>,
    <<"b", ".", "W", "a", "D">>,
    <<"c", ".", "t", "x", "t">>,
    <<"w", "a", "d">>,
    <<".", "w", "a", "d">> }

\* an item of the ReadDir iterator: Err, or Ok(entry) with its path and
\* what the file at that path holds
DirErr == [ok |-> FALSE, path |-> <<>>, content |-> "noperm"]
DirItems == {DirErr} \cup [ok : {TRUE}, path : FileNames, content : Contents]

RECURSIVE SeqsUpTo(_, _)
SeqsUpTo(S, n) ==
    IF n = 0 THEN {<<>>}
    ELSE LET shorter == SeqsUpTo(S, n - 1) IN
         shorter \cup {Append(s, x) : s \in {t \in shorter : Len(t) = n - 1}, x \in S}

\* no two entries of a directory share a name
Listings ==
    {s \in SeqsUpTo(DirItems, MaxDir) :
        \A i, j \in 1..Len(s) :
            (i # j /\ s[i].ok /\ s[j].ok) => s[i].path # s[j].path}

NoResult == [op |-> "none", path |-> <<>>, kind |-> "none", entry |-> NoEntry]


(***************************************************************************)
(* WadAssetReader::new                                                     *)
(***************************************************************************)
\* a plausible slip: wad_entries(reader, false), names kept as spelled
merge_wad_as_spelled(m, f, c) ==
    IF ~File_open(c) THEN m
    ELSE LET x == wad_entries(f, c, FALSE) IN
         IF x.ok THEN HashMap_extend(m, x.map) ELSE m

\* wad.rs 44-55: File::open(&path).map(BufReader::new)
\*   .and_then(|reader| wad_entries(reader, true)), Ok(x) => entries.extend(x),
\*   Err(err) => logged
merge_wad(m, f, c) ==
    IF ~File_open(c) THEN m
    ELSE LET x == wad_entries(f, c, TRUE) IN
         IF x.ok THEN HashMap_extend(m, x.map) ELSE m

\* wad.rs 39-43: the extension is there and equals "wad" ignoring ASCII case
is_wad_path(p) ==
    LET e == extension(p) IN e.some /\ eq_ignore_ascii_case(e.v, WAD)

\* a plausible slip: the loop entered although read_dir failed
ReadDirErr_scans ==
    /\ wpc = "new"
    /\ ~dirOk
    /\ wpc' = "scan"
    /\ idx' = 1
    /\ UNCHANGED <<dirOk, dir, entries, opened, result>>
    /\ UNCHANGED viewerVars

\* wad.rs 29, 59-61: read_dir fails, the error is logged, the map stays empty
ReadDirErr ==
    /\ wpc = "new"
    /\ ~dirOk
    /\ wpc' = "ready"
    /\ UNCHANGED <<dirOk, dir, idx, entries, opened, result>>
    /\ UNCHANGED viewerVars

\* wad.rs 29-30: read_dir succeeds, the loop starts
ReadDirOk ==
    /\ wpc = "new"
    /\ dirOk
    /\ wpc' = "scan"
    /\ idx' = 1
    /\ UNCHANGED <<dirOk, dir, entries, opened, result>>
    /\ UNCHANGED viewerVars

\* wad.rs 31-57: one iteration of the for loop
ScanEntry ==
    /\ wpc = "scan"
    /\ idx <= Len(dir)
    /\ LET item == dir[idx] IN
       IF ~item.ok THEN                         \* Err(err) => continue
            UNCHANGED <<entries, opened>>
       ELSE IF ~is_wad_path(item.path) THEN     \* no extension, or another one
            UNCHANGED <<entries, opened>>
       ELSE /\ opened' = opened \cup {idx}
            /\ entries' = merge_wad(entries, idx, item.content)
    /\ idx' = idx + 1
    /\ UNCHANGED <<dirOk, dir, wpc, result>>
    /\ UNCHANGED viewerVars

\* wad.rs 64: Self { entries }
FinishScan ==
    /\ wpc = "scan"
    /\ idx > Len(dir)
    /\ wpc' = "ready"
    /\ UNCHANGED <<dirOk, dir, idx, entries, opened, result>>
    /\ UNCHANGED viewerVars

(***************************************************************************)
(* impl AssetReader for WadAssetReader                                     *)
(***************************************************************************)
\* a requested path: its characters and whether they are valid UTF-8
Req(chars, utf8) == [chars |-> chars, utf8 |-> utf8]

ReqPaths == {
    Req(<<"a", "b">>, TRUE),
    Req(<<"A", "B", ".", "p">>, TRUE),
    Req(<<"c", ".", "t", "x", "t">>, TRUE),
    Req(<<"z">>, TRUE),
    Req(<<>>, TRUE),
    Req(<<".", ".">>, TRUE),
    Req(<<"a", "b">>, FALSE) }

\* OsStr::to_str
to_str(o, utf8) == IF o.some /\ utf8 THEN o ELSE None

HashMap_get(m, k) ==
    IF \E p \in m : p[1] = k
    THEN Some((CHOOSE p \in m : p[1] = k)[2])
    ELSE None

Res(op, path, kind, entry) == [op |-> op, path |-> path, kind |-> kind, entry |-> entry]

\* a plausible slip: the stem is looked up as it is spelled
read_as_spelled(m, path) ==
    LET name == to_str(file_stem(path.chars), path.utf8) IN
    IF ~name.some THEN Res("read", path, "InvalidInput", NoEntry)
    ELSE LET e == HashMap_get(m, name.v) IN
         IF ~e.some THEN Res("read", path, "NotFound", NoEntry)
         ELSE Res("read", path, "Ok", e.v)

\* wad.rs 69-91
read(m, path) ==
    LET name == to_str(file_stem(path.chars), path.utf8) IN
    IF ~name.some THEN Res("read", path, "InvalidInput", NoEntry)
    ELSE LET e == HashMap_get(m, to_lowercase(name.v)) IN
         IF ~e.some THEN Res("read", path, "NotFound", NoEntry)
         ELSE Res("read", path, "Ok", e.v)

\* a plausible slip: the meta file answered like the file itself
read_meta_as_read(m, path) ==
    LET r == read(m, path) IN Res("read_meta", path, r.kind, r.entry)

\* wad.rs 93-98
read_meta(m, path) == Res("read_meta", path, "NotFound", NoEntry)

\* wad.rs 100-105: Ok(stream::empty())
read_directory(m, path) == Res("read_directory", path, "OkEmpty", NoEntry)

\* wad.rs 107-109: Ok(false)
is_directory(m, path) == Res("is_directory", path, "OkFalse", NoEntry)

Read ==
    /\ wpc = "ready"
    /\ \E path \in ReqPaths : result' = read(entries, path)
    /\ UNCHANGED <<dirOk, dir, idx, entries, opened, wpc>>
    /\ UNCHANGED viewerVars

ReadMeta ==
    /\ wpc = "ready"
    /\ \E path \in ReqPaths : result' = read_meta(entries, path)
    /\ UNCHANGED <<dirOk, dir, idx, entries, opened, wpc>>
    /\ UNCHANGED viewerVars

ReadDirectory ==
    /\ wpc = "ready"
    /\ \E path \in ReqPaths : result' = read_directory(entries, path)
    /\ UNCHANGED <<dirOk, dir, idx, entries, opened, wpc>>
    /\ UNCHANGED viewerVars

IsDirectory ==
    /\ wpc = "ready"
    /\ \E path \in ReqPaths : result' = is_directory(entries, path)
    /\ UNCHANGED <<dirOk, dir, idx, entries, opened, wpc>>
    /\ UNCHANGED viewerVars

ViewerOff ==
    /\ vpc = "off"
    /\ wad_path = <<>>
    /\ wi = 0
    /\ loaded = {}
    /\ textures = <<>>
    /\ MOUSE_GRABBED = TRUE
    /\ cursorGrab = FALSE
    /\ cursorVisible = TRUE
    /\ cursorPos = "moved"
    /\ camera = [moves |-> 0, rots |-> 0, aspect |-> "4:3"]
    /\ callbacks = <<>>

InitWad ==
    /\ dirOk \in BOOLEAN
    /\ dir \in Listings
    /\ idx = 0
    /\ entries = {}
    /\ opened = {}
    /\ wpc = "new"
    /\ result = NoResult
    /\ ViewerOff

NextWad ==
    \/ ReadDirErr
    \/ ReadDirOk
    \/ ScanEntry
    \/ FinishScan
    \/ Read
    \/ ReadMeta
    \/ ReadDirectory
    \/ IsDirectory

SpecWad == InitWad /\ [][NextWad]_vars


(***************************************************************************)
(* The viewer: start-up and the archive loading loop (main.rs 72-106)      *)
(***************************************************************************)
\* what a file named by --wad holds
WadFiles == {"A1", "A2", "corrupt", "noperm"}

\* std::fs::read(path)
fs_read(c) == c # "noperm"

\* file::wad::Archive::parse over the i-th file: the archive's entries by
\* lowercase name
Archive_parse(i, c) ==
    IF c = "corrupt" THEN [ok |-> FALSE, map |-> {}]
    ELSE [ok |-> TRUE, map |-> InsertLumps({}, i, Lumps(c), 1, TRUE)]

\* a texture of the map: a placeholder, or resolved from an entry
Tex(empty, entry) == [empty |-> empty, entry |-> entry]
Embedded == Entry(0, 1)

\* the texture names the level refers to
MapTextures == { <<"A", "B">>, <<"c">>, <<"z">>, <<"e">> }

\* render::Map::new: the texture embedded in the level is there, the
\* others are placeholders
Map_new ==
    [n \in MapTextures |->
        IF n = <<"e">> THEN Tex(FALSE, Embedded) ELSE Tex(TRUE, NoEntry)]

\* Map::load_from_archive / replace_empty_textures: every placeholder whose
\* name is in the catalog, ignoring case, is replaced by the decoded entry
replace_empty_textures(tex, catalog) ==
    [n \in DOMAIN tex |->
        LET e == HashMap_get(catalog, to_lowercase(n)) IN
        IF tex[n].empty /\ e.some THEN Tex(FALSE, e.v) ELSE tex[n]]

\* main.rs 59-65: set_cursor_visible(false); set_cursor_grab(true).unwrap();
\* set_cursor_position(get_window_center(window)).unwrap().
\* outcome: which of the calls fails, if any
grab_cursor(w, outcome) ==
    CASE outcome = "grab_err" ->
            [grab |-> w.grab, visible |-> FALSE, pos |-> w.pos, panic |-> TRUE]
      [] outcome = "pos_err" ->
            [grab |-> TRUE, visible |-> FALSE, pos |-> w.pos, panic |-> TRUE]
      [] OTHER ->
            [grab |-> TRUE, visible |-> FALSE, pos |-> "center", panic |-> FALSE]

\* main.rs 67-70: set_cursor_visible(true); set_cursor_grab(false).unwrap()
ungrab_cursor(w, outcome) ==
    IF outcome = "grab_err"
    THEN [grab |-> w.grab, visible |-> TRUE, pos |-> w.pos, panic |-> TRUE]
    ELSE [grab |-> FALSE, visible |-> TRUE, pos |-> w.pos, panic |-> FALSE]

Window == [grab |-> cursorGrab, visible |-> cursorVisible, pos |-> cursorPos]

SetWindow(w) ==
    /\ cursorGrab' = w.grab
    /\ cursorVisible' = w.visible
    /\ cursorPos' = w.pos

\* main.rs 73-81: the display is built and the cursor grabbed
Startup ==
    /\ vpc = "start"
    /\ \E outcome \in {"ok", "grab_err", "pos_err"} :
         LET w == grab_cursor(Window, outcome) IN
         /\ SetWindow(w)
         /\ vpc' = IF w.panic THEN "panicked" ELSE "load"
    /\ wi' = 1
    /\ textures' = Map_new
    /\ UNCHANGED <<wad_path, loaded, MOUSE_GRABBED, camera, callbacks>>
    /\ UNCHANGED wadVars

\* a plausible slip: the map is built anew for every archive
LoadArchive_fresh_map ==
    /\ vpc = "load"
    /\ wi <= Len(wad_path)
    /\ LET c == wad_path[wi] IN
       IF ~fs_read(c) \/ ~Archive_parse(wi, c).ok
       THEN /\ vpc' = "load_panicked"
            /\ UNCHANGED <<wi, loaded, textures>>
       ELSE /\ textures' = replace_empty_textures(Map_new, Archive_parse(wi, c).map)
            /\ loaded' = loaded \cup {wi}
            /\ wi' = wi + 1
            /\ UNCHANGED vpc
    /\ UNCHANGED <<wad_path, MOUSE_GRABBED, cursorGrab, cursorVisible,
                   cursorPos, camera, callbacks>>
    /\ UNCHANGED wadVars

\* main.rs 85-91: one element of wad_path.iter().map(read .unwrap())
\*   .for_each(parse .unwrap(), load_from_archive)
LoadArchive ==
    /\ vpc = "load"
    /\ wi <= Len(wad_path)
    /\ LET c == wad_path[wi] IN
       IF ~fs_read(c) \/ ~Archive_parse(wi, c).ok
       THEN /\ vpc' = "load_panicked"
            /\ UNCHANGED <<wi, loaded, textures>>
       ELSE /\ textures' = replace_empty_textures(textures, Archive_parse(wi, c).map)
            /\ loaded' = loaded \cup {wi}
            /\ wi' = wi + 1
            /\ UNCHANGED vpc
    /\ UNCHANGED <<wad_path, MOUSE_GRABBED, cursorGrab, cursorVisible,
                   cursorPos, camera, callbacks>>
    /\ UNCHANGED wadVars

\* main.rs 92-108: the map is loaded, the event loop starts
FinishLoad ==
    /\ vpc = "load"
    /\ wi > Len(wad_path)
    /\ vpc' = "loop"
    /\ UNCHANGED <<wad_path, wi, loaded, textures, MOUSE_GRABBED, cursorGrab,
                   cursorVisible, cursorPos, camera, callbacks>>
    /\ UNCHANGED wadVars


(***************************************************************************)
(* The event loop and process_window (main.rs 108-199)                     *)
(*                                                                         *)
(* event_loop.run calls the closure for one event at a time on the thread  *)
(* that called it: an event is handled only when no process_window call is *)
(* in flight.  The G branch is two steps, the read of MOUSE_GRABBED with   *)
(* the cursor call, then the write; the other branches are one step.       *)
(***************************************************************************)
Invocation(thread, write) == [thread |-> thread, write |-> write]

Remove(s, i) == [j \in 1..(Len(s) - 1) |-> IF j < i THEN s[j] ELSE s[j + 1]]

\* a plausible slip: the handler started from a second thread while a call
\* is in flight
KeyG_concurrent ==
    /\ vpc = "loop"
    /\ Len(callbacks) < 2
    /\ \E outcome \in {"ok", "grab_err", "pos_err"} :
         LET w == IF MOUSE_GRABBED THEN ungrab_cursor(Window, outcome)
                                   ELSE grab_cursor(Window, outcome) IN
         /\ SetWindow(w)
         /\ IF w.panic
            THEN vpc' = "panicked" /\ UNCHANGED callbacks
            ELSE /\ callbacks' = Append(callbacks,
                        Invocation(IF callbacks = <<>> THEN "main" ELSE "worker",
                                   ~MOUSE_GRABBED))
                 /\ UNCHANGED vpc
    /\ UNCHANGED <<wad_path, wi, loaded, textures, MOUSE_GRABBED, camera>>
    /\ UNCHANGED wadVars

\* main.rs 150-160, 163: KeyboardInput, Pressed, G: MOUSE_GRABBED is read
\* and the cursor released or grabbed
KeyG ==
    /\ vpc = "loop"
    /\ callbacks = <<>>
    /\ \E outcome \in {"ok", "grab_err", "pos_err"} :
         LET w == IF MOUSE_GRABBED THEN ungrab_cursor(Window, outcome)
                                   ELSE grab_cursor(Window, outcome) IN
         /\ SetWindow(w)
         /\ IF w.panic
            THEN vpc' = "panicked" /\ UNCHANGED callbacks
            ELSE /\ callbacks' = Append(callbacks, Invocation("main", ~MOUSE_GRABBED))
                 /\ UNCHANGED vpc
    /\ UNCHANGED <<wad_path, wi, loaded, textures, MOUSE_GRABBED, camera>>
    /\ UNCHANGED wadVars

\* a plausible slip: the flag left as it was after the cursor call
KeyG_Write_skipped ==
    /\ vpc = "loop"
    /\ callbacks # <<>>
    /\ \E i \in DOMAIN callbacks : callbacks' = Remove(callbacks, i)
    /\ UNCHANGED <<vpc, wad_path, wi, loaded, textures, MOUSE_GRABBED, cursorGrab,
                   cursorVisible, cursorPos, camera>>
    /\ UNCHANGED wadVars

\* main.rs 161, 164, 174: MOUSE_GRABBED is written, the call returns Poll
KeyG_Write ==
    /\ vpc = "loop"
    /\ callbacks # <<>>
    /\ \E i \in DOMAIN callbacks :
         /\ MOUSE_GRABBED' = callbacks[i].write
         /\ callbacks' = Remove(callbacks, i)
    /\ UNCHANGED <<vpc, wad_path, wi, loaded, textures, cursorGrab,
                   cursorVisible, cursorPos, camera>>
    /\ UNCHANGED wadVars

\* main.rs 154-157: Pressed W, S, A or D moves the camera
KeyMove ==
    /\ vpc = "loop"
    /\ callbacks = <<>>
    /\ camera.moves < MaxCam
    /\ camera' = [camera EXCEPT !.moves = @ + 1]
    /\ UNCHANGED <<vpc, wad_path, wi, loaded, textures, MOUSE_GRABBED, cursorGrab,
                   cursorVisible, cursorPos, callbacks>>
    /\ UNCHANGED wadVars

\* main.rs 167-169, 196: Pressed Q, or CloseRequested
Quit ==
    /\ vpc = "loop"
    /\ callbacks = <<>>
    /\ vpc' = "exit"
    /\ UNCHANGED <<wad_path, wi, loaded, textures, MOUSE_GRABBED, cursorGrab,
                   cursorVisible, cursorPos, camera, callbacks>>
    /\ UNCHANGED wadVars

\* main.rs 176-191: the cursor was moved; while grabbed it is put back to
\* the centre (both calls unwrap) and the camera rotated
CursorMoved ==
    /\ vpc = "loop"
    /\ callbacks = <<>>
    /\ camera.rots < MaxCam
    /\ IF MOUSE_GRABBED
       THEN \E ok \in BOOLEAN :
              IF ok THEN /\ cursorPos' = "center"
                         /\ camera' = [camera EXCEPT !.rots = @ + 1]
                         /\ UNCHANGED vpc
                    ELSE /\ cursorPos' = "moved"
                         /\ vpc' = "panicked"
                         /\ UNCHANGED camera
       ELSE /\ cursorPos' = "moved"
            /\ UNCHANGED <<vpc, camera>>
    /\ UNCHANGED <<wad_path, wi, loaded, textures, MOUSE_GRABBED, cursorGrab,
                   cursorVisible, callbacks>>
    /\ UNCHANGED wadVars

\* main.rs 192-195: Resized sets the aspect ratio
Resized ==
    /\ vpc = "loop"
    /\ callbacks = <<>>
    /\ \E a \in {"4:3", "16:9"} : camera' = [camera EXCEPT !.aspect = a]
    /\ UNCHANGED <<vpc, wad_path, wi, loaded, textures, MOUSE_GRABBED, cursorGrab,
                   cursorVisible, cursorPos, callbacks>>
    /\ UNCHANGED wadVars

\* main.rs 116-139, 151-152, 170, 197: a released key, another key, another
\* window event, MainEventsCleared, RedrawRequested: nothing modelled changes
OtherEvent ==
    /\ vpc = "loop"
    /\ callbacks = <<>>
    /\ UNCHANGED viewerVars
    /\ UNCHANGED wadVars

WadOff ==
    /\ dirOk = FALSE
    /\ dir = <<>>
    /\ idx = 0
    /\ entries = {}
    /\ opened = {}
    /\ wpc = "off"
    /\ result = NoResult

\* main.rs 15, 41-47, 79
InitViewer ==
    /\ vpc = "start"
    /\ wad_path \in SeqsUpTo(WadFiles, MaxWads)
    /\ wi = 0
    /\ loaded = {}
    /\ textures = Map_new
    /\ MOUSE_GRABBED = TRUE
    /\ cursorGrab = FALSE
    /\ cursorVisible = TRUE
    /\ cursorPos = "moved"
    /\ camera = [moves |-> 0, rots |-> 0, aspect |-> "4:3"]
    /\ callbacks = <<>>
    /\ WadOff

NextViewer ==
    \/ Startup
    \/ LoadArchive
    \/ FinishLoad
    \/ KeyG
    \/ KeyG_Write
    \/ KeyMove
    \/ Quit
    \/ CursorMoved
    \/ Resized
    \/ OtherEvent

SpecViewer == InitViewer /\ [][NextViewer]_vars


(***************************************************************************)
(* What the properties are stated against: the expected values, written    *)
(* out for the files and the requests of the model                         *)
(***************************************************************************)
\* the file names whose extension is "wad" in some letter case
WadNamed == { <<"a", ".", "w", "a", "d">>, <<"b", ".", "W", "a", "D">> }

\* the contents that are valid archives
ValidContent == {"A1", "A2", "A3"}

\* the names of an archive, case folded
LowerNames(c) ==
    CASE c = "A1" -> { <<"a", "b">>, <<"c">> }
      [] c = "A2" -> { <<"a", "b">>, <<"d">> }
      [] c = "A3" -> { <<"a", "b">> }
      [] OTHER -> {}

AllNames == { <<"a", "b">>, <<"c">>, <<"d">> }

\* the name a request asks for, if it has one
ExpectedName(path) ==
    IF ~path.utf8 THEN None
    ELSE CASE path.chars = <<"a", "b">> -> Some(<<"a", "b">>)
           [] path.chars = <<"A", "B", ".", "p">> -> Some(<<"A", "B">>)
           [] path.chars = <<"c", ".", "t", "x", "t">> -> Some(<<"c">>)
           [] path.chars = <<"z">> -> Some(<<"z">>)
           [] OTHER -> None

\* the directory items the loop of new has passed
Done == IF wpc = "scan" THEN idx - 1
        ELSE IF wpc = "ready" /\ dirOk THEN Len(dir) ELSE 0

\* the passed items that are readable valid archives named *.wad
Merged ==
    {i \in 1..Done :
        dir[i].ok /\ dir[i].path \in WadNamed /\ dir[i].content \in ValidContent}

Max(S) == CHOOSE x \in S : \A y \in S : y <= x

RECURSIVE SumNames(_)
SumNames(S) ==
    IF S = {} THEN 0
    ELSE LET i == CHOOSE x \in S : TRUE IN
         Cardinality(LowerNames(dir[i].content)) + SumNames(S \ {i})

(***************************************************************************)
(* C1                                                                      *)
(***************************************************************************)
\* the directory scan half of C1: the scan ends, and every valid archive
\* it passed has its names in the catalog
C1_ScanKeepsValid ==
    /\ wpc \in {"new", "scan", "ready", "off"}
    /\ \A i \in Merged : LowerNames(dir[i].content) \subseteq Keys(entries)

\* C1: loading archives never aborts because of one bad file: a file that
\* fails to open or to parse is skipped and the entries of every other
\* valid file are in the result, in the directory scan of
\* WadAssetReader::new and in the loading loop of the viewer.
C1_NoAbort ==
    /\ C1_ScanKeepsValid
    /\ vpc # "load_panicked"
    /\ vpc \in {"loop", "exit"} =>
          \A i \in DOMAIN wad_path : wad_path[i] \in ValidContent => i \in loaded

(***************************************************************************)
(* C2                                                                      *)
(***************************************************************************)
\* C2 as claimed: when the directory cannot be read, construction succeeds,
\* the catalog is empty and every later read returns not-found.
C2_EveryReadNotFound ==
    (wpc = "ready" /\ ~dirOk) =>
        /\ entries = {}
        /\ result.op = "read" => result.kind = "NotFound"

\* C2 as amended: when the directory cannot be read, construction succeeds,
\* the catalog is empty and every later read fails: not-found for a path
\* that has a UTF-8 file stem, invalid-input for a path that has none.
C2_EmptyCatalog ==
    (wpc = "ready" /\ ~dirOk) =>
        /\ entries = {}
        /\ result.op = "read" =>
              result.kind = IF ExpectedName(result.path).some
                            THEN "NotFound" ELSE "InvalidInput"

C2_Witness ==
    /\ wpc = "ready"
    /\ ~dirOk
    /\ \E i \in DOMAIN dir :
          dir[i].ok /\ dir[i].path \in WadNamed /\ dir[i].content = "A1"
    /\ result.op = "read"
    /\ result.path = Req(<<"a", "b">>, TRUE)
    /\ result.kind = "NotFound"

(***************************************************************************)
(* C3                                                                      *)
(***************************************************************************)
\* C3: a name held by several scanned archives has exactly one entry in
\* the catalog, the one of the archive scanned last; a name of no scanned
\* archive has none; the catalog is no larger than the archives' entry
\* counts added up.
C3_LastWins ==
    /\ \A k \in AllNames \cup Keys(entries) :
          LET S == {i \in Merged : k \in LowerNames(dir[i].content)} IN
          IF S = {} THEN k \notin Keys(entries)
          ELSE /\ Cardinality({p \in entries : p[1] = k}) = 1
               /\ \A p \in entries : p[1] = k => p[2].file = Max(S)
    /\ Cardinality(entries) <= SumNames(Merged)

C3_Witness ==
    /\ wpc = "ready"
    /\ \E i, j \in Merged :
          /\ i < j
          /\ LowerNames(dir[i].content) \cap LowerNames(dir[j].content) # {}
          /\ \E p \in entries : p[2].file = i

(***************************************************************************)
(* C4                                                                      *)
(***************************************************************************)
\* C4: every key of the catalog is lowercase, no two entries have the same
\* key, and names of scanned archives that differ only in letter case have
\* one entry between them.
C4_LowercaseUnique ==
    /\ \A p \in entries : p[1] = to_lowercase(p[1])
    /\ \A p, q \in entries : p[1] = q[1] => p = q
    /\ \A i \in Merged : \A n \in 1..Len(Lumps(dir[i].content)) :
          Cardinality({p \in entries :
              eq_ignore_ascii_case(p[1], Lumps(dir[i].content)[n])}) = 1

C4_Witness ==
    /\ wpc = "ready"
    /\ \E i, j \in Merged : dir[i].content = "A1" /\ dir[j].content = "A2"
    /\ Cardinality(entries) = 3

(***************************************************************************)
(* C5                                                                      *)
(***************************************************************************)
\* the entries whose key is the requested name, ignoring case
Matching(path) ==
    LET n == ExpectedName(path) IN
    IF n.some THEN {p \in entries : eq_ignore_ascii_case(p[1], n.v)} ELSE {}

\* C5 as claimed: for every requested path, read returns a reader over the
\* entry whose key is the requested name ignoring case, and not-found, never
\* another error, when there is no such entry.
C5_ReadOrNotFound ==
    result.op = "read" =>
        IF Matching(result.path) # {}
        THEN /\ result.kind = "Ok"
             /\ \E p \in Matching(result.path) : result.entry = p[2]
        ELSE result.kind = "NotFound"

\* C5 as amended: for every requested path that has a UTF-8 file stem, read
\* returns a reader over the entry whose key is that stem ignoring case, and
\* not-found when there is no such entry; for a path with no file stem, or
\* one that is not UTF-8, read returns an invalid-input I/O error.
C5_ReadByName ==
    result.op = "read" =>
        IF Matching(result.path) # {}
        THEN /\ result.kind = "Ok"
             /\ \E p \in Matching(result.path) : result.entry = p[2]
        ELSE result.kind = IF ExpectedName(result.path).some
                           THEN "NotFound" ELSE "InvalidInput"

C5_Witness ==
    /\ result.op = "read"
    /\ result.path = Req(<<"A", "B", ".", "p">>, TRUE)
    /\ result.kind = "Ok"
    /\ Cardinality(entries) > 1

(***************************************************************************)
(* C6                                                                      *)
(***************************************************************************)
\* C6: for every path and every catalog, read_meta returns not-found,
\* read_directory an empty listing and is_directory false.
C6_FlatNamespace ==
    /\ result.op = "read_meta" => result.kind = "NotFound"
    /\ result.op = "read_directory" => result.kind = "OkEmpty"
    /\ result.op = "is_directory" => result.kind = "OkFalse"
    /\ result.op # "read" => result.entry = NoEntry

C6_Witness ==
    /\ result.op = "read_meta"
    /\ Matching(result.path) # {}

(***************************************************************************)
(* C7                                                                      *)
(***************************************************************************)
\* C7: a directory entry is opened, and adds to the catalog, only if its
\* extension is "wad" in some letter case; every such entry the loop has
\* passed was opened, and if it is a readable valid archive its names are in
\* the catalog.
C7_ExtensionFilter ==
    /\ \A i \in opened : dir[i].ok /\ dir[i].path \in WadNamed
    /\ \A p \in entries : p[2].file \in Merged
    /\ \A i \in 1..Done : (dir[i].ok /\ dir[i].path \in WadNamed) => i \in opened
    /\ \A i \in Merged : LowerNames(dir[i].content) \subseteq Keys(entries)

C7_Witness ==
    /\ wpc = "ready"
    /\ \E i, j \in DOMAIN dir :
          /\ dir[i].ok /\ dir[i].path = <<"b", ".", "W", "a", "D">>
          /\ dir[i].content = "A1"
          /\ i \in opened
          /\ dir[j].ok /\ dir[j].path = <<".", "w", "a", "d">>
          /\ dir[j].content = "A2"
          /\ j \notin opened
    /\ Cardinality(entries) = 2

(***************************************************************************)
(* C8                                                                      *)
(***************************************************************************)
\* a texture is resolved only from the level or from an archive applied
\* that holds its name
C8_ResolvedFromCatalog ==
    \A n \in DOMAIN textures :
        ~textures[n].empty =>
            \/ textures[n].entry = Embedded
            \/ \E i \in loaded :
                  /\ to_lowercase(n) \in LowerNames(wad_path[i])
                  /\ textures[n].entry.file = i

\* applying a catalog to the textures as they are, twice, is applying it once
C8_TwiceIsOnce ==
    \A c \in ValidContent :
        LET cat == Archive_parse(1, c).map IN
        replace_empty_textures(replace_empty_textures(textures, cat), cat)
            = replace_empty_textures(textures, cat)

\* C8: resolving placeholders is idempotent and never fails hard: the same
\* catalog applied twice leaves every texture as applying it once does, a
\* texture whose name is in no catalog applied stays empty, and a resolved
\* texture is never turned back into a placeholder.
C8_Idempotent ==
    /\ [](C8_ResolvedFromCatalog /\ C8_TwiceIsOnce)
    /\ [][\A n \in DOMAIN textures :
            ~textures[n].empty => textures'[n] = textures[n]]_vars
    /\ [][(vpc = "load" /\ wi' = wi + 1 /\ wi > 1 /\ wad_path[wi] = wad_path[wi - 1])
            => \A n \in DOMAIN textures : textures'[n] = textures[n]]_vars

C8_Witness ==
    /\ vpc = "loop"
    /\ wad_path = <<"A1", "A1">>
    /\ loaded = {1, 2}
    /\ textures[<<"z">>].empty
    /\ textures[<<"A", "B">>] = Tex(FALSE, Entry(1, 1))

C10_FlagIsCursorState ==
    /\ []((vpc \in {"load", "loop", "exit"} /\ callbacks = <<>>) =>
            /\ MOUSE_GRABBED <=> cursorGrab
            /\ MOUSE_GRABBED <=> ~cursorVisible)
    /\ [](vpc = "load" => MOUSE_GRABBED)
    /\ [][MOUSE_GRABBED' # MOUSE_GRABBED =>
            /\ callbacks # <<>>
            /\ MOUSE_GRABBED' = cursorGrab]_vars
    /\ [][cursorGrab' # cursorGrab =>
            (vpc = "start" \/ (vpc = "loop" /\ callbacks = <<>>))]_vars
    /\ [][camera'.rots # camera.rots =>
            (MOUSE_GRABBED /\ cursorPos' = "center")]_vars

C10_Witness ==
    /\ vpc = "loop"
    /\ callbacks = <<>>
    /\ ~MOUSE_GRABBED
    /\ ~cursorGrab
    /\ cursorVisible
    /\ camera.rots > 0

====
